---- MODULE Spec2Model ----
(***************************************************************************)
(* Model of lib/validator.js (validate, processChildRules, processRule,    *)
(* the four iteration strategies, selectConditionalRule, ParentStack) and  *)
(* of the parts of lib/validatorformats.js it uses.                        *)
(*                                                                         *)
(* One call of validate is a run of small steps: Validate enters the root  *)
(* rule map, each Visit* step is one invocation of the callback that       *)
(* processChildRules hands to its iteration strategy (up to the point      *)
(* where processRule returns, throws or recurses), and Leave is the tail   *)
(* of processChildRules (filter, pop) followed by the return into the      *)
(* caller's callback.                                                      *)
(***************************************************************************)
EXTENDS Integers, Sequences, FiniteSets, TLC

(***************************************************************************)
(* Bounds of the model.                                                    *)
(***************************************************************************)
MaxLen == 3
MaxHead == 2
MaxTail == 2
MaxCalls == 2
MaxInner == 2
MaxAlts == 2

(***************************************************************************)
(* JavaScript values.  A string is the sequence of its characters; the     *)
(* characters of the model are the digits 0..9 and letters, any character  *)
(* outside 0..9.                                                           *)
(***************************************************************************)
Undefined == [k |-> "undefined"]
NaN == [k |-> "nan"]
Num(n) == [k |-> "number", n |-> n]
Str(s) == [k |-> "string", s |-> s]
Arr(e) == [k |-> "array", e |-> e]
Obj(p) == [k |-> "object", p |-> p]
Prop(key, val) == [key |-> key, val |-> val]

\* A position in a container: a property name or an array index.
KeySeg(name) == [name |-> name, idx |-> -1]
IdxSeg(i) == [name |-> "", idx |-> i]

IsDefined(v) == v.k # "undefined"
IsArray(v) == v.k = "array"
\* typeof v === 'object'
IsObjectType(v) == v.k \in {"array", "object"}

ObjectKeys(v) == [j \in 1..Len(v.p) |-> v.p[j].key]
HasOwn(v, name) == \E j \in 1..Len(v.p) : v.p[j].key = name
KeyIndex(v, name) == CHOOSE j \in 1..Len(v.p) : v.p[j].key = name

\* v[seg]
Get(v, seg) ==
    IF v.k = "array"
    THEN IF seg.idx >= 0 /\ seg.idx < Len(v.e) THEN v.e[seg.idx + 1] ELSE Undefined
    ELSE IF v.k = "object"
    THEN IF HasOwn(v, seg.name) THEN v.p[KeyIndex(v, seg.name)].val ELSE Undefined
    ELSE Undefined

\* v[seg] = x : an index past the end lengthens the array, a new name adds a key.
Put(v, seg, x) ==
    IF v.k = "array"
    THEN IF seg.idx < Len(v.e)
         THEN Arr([v.e EXCEPT ![seg.idx + 1] = x])
         ELSE Arr([j \in 1..(seg.idx + 1) |->
                     IF j <= Len(v.e) THEN v.e[j]
                     ELSE IF j = seg.idx + 1 THEN x ELSE Undefined])
    ELSE IF HasOwn(v, seg.name)
         THEN Obj([v.p EXCEPT ![KeyIndex(v, seg.name)] = Prop(seg.name, x)])
         ELSE Obj(Append(v.p, Prop(seg.name, x)))

RECURSIVE GetPath(_, _)
GetPath(v, path) ==
    IF path = <<>> THEN v ELSE GetPath(Get(v, Head(path)), Tail(path))

RECURSIVE PutPath(_, _, _)
PutPath(v, path, x) ==
    IF path = <<>> THEN x
    ELSE Put(v, Head(path), PutPath(Get(v, Head(path)), Tail(path), x))

\* value.length
LengthOf(v) ==
    IF v.k = "string" THEN Num(Len(v.s))
    ELSE IF v.k = "array" THEN Num(Len(v.e))
    ELSE Undefined

\* JavaScript truthiness of a number-or-undefined slot.
Truthy(v) == IF v.k = "number" THEN v.n # 0 ELSE v.k \notin {"undefined", "nan"}

RECURSIVE DigitsValue(_, _)
DigitsValue(s, acc) ==
    IF s = <<>> THEN acc ELSE DigitsValue(Tail(s), acc * 10 + Head(s))

RECURSIVE DigitPrefix(_)
DigitPrefix(s) ==
    IF s = <<>> \/ Head(s) \notin 0..9 THEN <<>> ELSE <<Head(s)>> \o DigitPrefix(Tail(s))

\* parseInt(string, 10): the longest prefix of digits, NaN when it is empty.
ParseInt(s) == IF DigitPrefix(s) = <<>> THEN NaN ELSE Num(DigitsValue(DigitPrefix(s), 0))

\* ToNumber, as the relational operators apply it to a primitive operand.
ToNumber(v) ==
    IF v.k = "number" THEN v
    ELSE IF v.k = "string"
    THEN IF v.s = <<>> THEN Num(0)
         ELSE IF DigitPrefix(v.s) = v.s THEN Num(DigitsValue(v.s, 0)) ELSE NaN
    ELSE NaN

RECURSIVE LexLess(_, _)
LexLess(s, t) ==
    IF t = <<>> THEN FALSE
    ELSE IF s = <<>> THEN TRUE
    ELSE IF Head(s) # Head(t) THEN Head(s) < Head(t)
    ELSE LexLess(Tail(s), Tail(t))

\* a < b : two strings compare by characters, anything else by ToNumber.
JsLess(a, b) ==
    IF a.k = "string" /\ b.k = "string" THEN LexLess(a.s, b.s)
    ELSE /\ ToNumber(a).k = "number"
         /\ ToNumber(b).k = "number"
         /\ ToNumber(a).n < ToNumber(b).n

\* a === b on primitives; two containers are never the same object as a literal.
JsStrictEq(a, b) == a.k \notin {"array", "object", "nan"} /\ a = b

(***************************************************************************)
(* Errors.  class is the constructor the code throws with: the validation  *)
(* error Err.TrackValidationError, the plain Error, or the TypeError the   *)
(* runtime raises when a property of undefined is read.                    *)
(***************************************************************************)
NoError == [class |-> "none", reason |-> "", key |-> <<>>]
TrackValidationError(reason, key) ==
    [class |-> "TrackValidationError", reason |-> reason, key |-> key]
PlainError(reason, key) == [class |-> "Error", reason |-> reason, key |-> key]
TypeError(reason, key) == [class |-> "TypeError", reason |-> reason, key |-> key]

(***************************************************************************)
(* Rule nodes and rule maps.  A rule map is the sequence of its entries in *)
(* declaration order (the order of Object.keys); an entry is a single rule *)
(* node (isList = FALSE, alts = <<node>>) or an alternative list.  A       *)
(* numeric constraint that is not given is Undefined, a string constraint  *)
(* that is not given is "".                                                *)
(***************************************************************************)
wildcardRuleName == "*"

EmptyRule ==
    [required |-> FALSE, format |-> "", hasAllowedValues |-> FALSE, allowedValues |-> <<>>,
     hasRange |-> FALSE, range |-> <<Undefined, Undefined>>,
     minLength |-> Undefined, maxLength |-> Undefined, length |-> Undefined,
     fixedChildLength |-> FALSE, ascending |-> FALSE, descending |-> FALSE,
     noRepeat |-> FALSE, hasChildRules |-> FALSE, childRules |-> <<>>, condition |-> ""]

Single(name, node) == [name |-> name, isList |-> FALSE, alts |-> <<node>>]
Alternatives(name, nodes) == [name |-> name, isList |-> TRUE, alts |-> nodes]

RuleNames(ruleMap) == [j \in 1..Len(ruleMap) |-> ruleMap[j].name]
HasRule(ruleMap, name) == \E j \in 1..Len(ruleMap) : ruleMap[j].name = name
RuleAt(ruleMap, name) == ruleMap[CHOOSE j \in 1..Len(ruleMap) : ruleMap[j].name = name]
\* ruleNames.indexOf(name), 0-based, -1 when absent
IndexOfRule(ruleMap, name) ==
    IF HasRule(ruleMap, name)
    THEN (CHOOSE j \in 1..Len(ruleMap) : ruleMap[j].name = name) - 1
    ELSE -1
\* ruleNames[ruleIndex]: reading past the end gives undefined, which as a
\* property name is the string "undefined"
RuleNameAt(ruleMap, ruleIndex) ==
    IF ruleIndex >= 0 /\ ruleIndex < Len(ruleMap) THEN ruleMap[ruleIndex + 1].name
    ELSE "undefined"

(***************************************************************************)
(* The format registry of validatorformats.js, for the formats the model   *)
(* uses.  Only "number" of these has a converter.                          *)
(***************************************************************************)
ValidatorNames == {"string", "object", "array", "number"}
ConverterNames == {"number"}

validators(format, value) ==
    IF format = "string" THEN value.k = "string"
    ELSE IF format = "object" THEN value.k = "object"
    ELSE IF format = "array" THEN value.k = "array"
    ELSE value.k = "number"

\* converters.number: [thrown |-> TRUE] stands for the thrown string
convertNumber(value) ==
    IF validators("number", value) THEN [thrown |-> FALSE, value |-> value]
    ELSE IF value.k = "string" /\ ParseInt(value.s).k = "number"
    THEN [thrown |-> FALSE, value |-> ParseInt(value.s)]
    ELSE [thrown |-> TRUE, value |-> Undefined]

(***************************************************************************)
(* State.                                                                  *)
(*   data, rules, options  the arguments of validate; data is the caller's *)
(*                         tree, which the call changes in place           *)
(*   currentOptions        the module variable validate sets               *)
(*   stack                 the active processChildRules calls, outermost   *)
(*                         first, each with its loop position              *)
(*   parentStack           ParentStack.stack of the running call           *)
(*   result                what each finished call did: NoError for a      *)
(*                         normal return, else the error thrown            *)
(*   log                   history: the callback invocations so far        *)
(*   original              history: data before the first call             *)
(***************************************************************************)
VARIABLES data, rules, options, currentOptions, stack, parentStack, result, log, original

vars == <<data, rules, options, currentOptions, stack, parentStack, result, log, original>>

defaultOptions == [filter |-> FALSE, debug |-> FALSE, convert |-> FALSE]

\* _.extend({}, defaultOptions, options): conditions is undefined unless given
ExtendOptions(opts) ==
    [filter |-> opts.filter, debug |-> defaultOptions.debug, convert |-> opts.convert,
     conditions |-> opts.conditions]

(***************************************************************************)
(* ParentStack                                                             *)
(***************************************************************************)
\* the {} that push() puts on the stack
NewParentInfo == [fixedChildLength |-> Undefined, prevChildValues |-> Obj(<<>>)]

ParentStackPush(ps) == Append(ps, NewParentInfo)
ParentStackPop(ps) == SubSeq(ps, 1, Len(ps) - 1)
\* peek(offset) is ps[PeekIndex(ps, offset)]; there is none when the index is 0
PeekIndex(ps, offset) == Len(ps) - offset

enableFixedChildLength(ps) ==
    [ps EXCEPT ![PeekIndex(ps, 0)].fixedChildLength = Num(-1)]

\* setPrevChildValue on parentInfo = peek(1)
SetPrevChildValue(ps, ruleName, value) ==
    [ps EXCEPT ![PeekIndex(ps, 1)].prevChildValues = Put(@, KeySeg(ruleName), value)]

processSortingRules(ps, key, rule, ruleName, value) ==
    LET parentInfo == ps[PeekIndex(ps, 1)]
        prevChildValue == Get(parentInfo.prevChildValues, KeySeg(ruleName))
    IN  IF rule.ascending /\ IsDefined(prevChildValue) /\ JsLess(value, prevChildValue)
        THEN [err |-> TrackValidationError("breaks ascending order", key), ps |-> ps]
        ELSE IF rule.descending /\ IsDefined(prevChildValue) /\ JsLess(prevChildValue, value)
        THEN [err |-> TrackValidationError("breaks descending order", key),
              ps |-> IF rule.ascending THEN SetPrevChildValue(ps, ruleName, value) ELSE ps]
        ELSE IF rule.noRepeat /\ IsDefined(prevChildValue) /\ JsStrictEq(prevChildValue, value)
        THEN [err |-> TrackValidationError("repeats the value from its previous sibling", key),
              ps |-> IF rule.ascending \/ rule.descending
                     THEN SetPrevChildValue(ps, ruleName, value) ELSE ps]
        ELSE [err |-> NoError,
              ps |-> IF rule.ascending \/ rule.descending \/ rule.noRepeat
                     THEN SetPrevChildValue(ps, ruleName, value) ELSE ps]

processSiblingRules(ps, key, rule, ruleName, value) ==
    IF PeekIndex(ps, 1) < 1 THEN [err |-> NoError, ps |-> ps]
    ELSE LET parentInfo == ps[PeekIndex(ps, 1)]
         IN  IF Truthy(parentInfo.fixedChildLength)
             THEN IF parentInfo.fixedChildLength = Num(-1)
                  THEN processSortingRules(
                           [ps EXCEPT ![PeekIndex(ps, 1)].fixedChildLength = LengthOf(value)],
                           key, rule, ruleName, value)
                  ELSE IF parentInfo.fixedChildLength # LengthOf(value)
                  THEN [err |-> TrackValidationError(
                                    "has a different length than the previous sibling", key),
                        ps |-> ps]
                  ELSE processSortingRules(ps, key, rule, ruleName, value)
             ELSE processSortingRules(ps, key, rule, ruleName, value)

(***************************************************************************)
(* Constraint evaluators.  Each gives the error it throws, or NoError.     *)
(***************************************************************************)
isRequired(rule, value, key) ==
    IF ~IsDefined(value) THEN TrackValidationError("not defined but required", key)
    ELSE NoError

\* [err, value]: value is the convertedValue it returns
isCorrectFormat(rule, value, key) ==
    LET format == rule.format
        hasConverter == currentOptions.convert /\ format \in ConverterNames
    IN  IF hasConverter
        THEN IF convertNumber(value).thrown
             THEN [err |-> TrackValidationError("format error", key), value |-> value]
             ELSE [err |-> NoError, value |-> convertNumber(value).value]
        ELSE IF format \in ValidatorNames
        THEN IF ~validators(format, value)
             THEN [err |-> TrackValidationError("is not a valid value", key), value |-> value]
             ELSE [err |-> NoError, value |-> value]
        ELSE [err |-> PlainError("is not a valid format", key), value |-> value]

arrayContains(value, allowedValues) ==
    \E j \in 1..Len(allowedValues) : JsStrictEq(allowedValues[j], value)

isAllowedValue(rule, value, key) ==
    IF ~arrayContains(value, rule.allowedValues)
    THEN TrackValidationError("isn't in list of allowedValues", key)
    ELSE NoError

isInRange(rule, value, key) ==
    IF JsLess(value, rule.range[1]) \/ JsLess(rule.range[2], value)
    THEN TrackValidationError("is out of range", key)
    ELSE NoError

isMinLength(rule, value, key) ==
    IF JsLess(LengthOf(value), rule.minLength)
    THEN TrackValidationError("Min length not reached", key)
    ELSE NoError

isLength(rule, value, key) ==
    IF LengthOf(value) # rule.length
    THEN TrackValidationError("Value has wrong length", key)
    ELSE NoError

isMaxLength(rule, value, key) ==
    IF JsLess(rule.maxLength, LengthOf(value))
    THEN TrackValidationError("Max length exceeded", key)
    ELSE NoError

\* the same checks with the range looked at before the allowed values
ScalarConstraintsRangeFirst(rule, value, key) ==
    IF rule.hasRange /\ isInRange(rule, value, key) # NoError
    THEN isInRange(rule, value, key)
    ELSE IF rule.hasAllowedValues /\ isAllowedValue(rule, value, key) # NoError
    THEN isAllowedValue(rule, value, key)
    ELSE IF Truthy(rule.minLength) /\ isMinLength(rule, value, key) # NoError
    THEN isMinLength(rule, value, key)
    ELSE IF Truthy(rule.maxLength) /\ isMaxLength(rule, value, key) # NoError
    THEN isMaxLength(rule, value, key)
    ELSE IF Truthy(rule.length) /\ isLength(rule, value, key) # NoError
    THEN isLength(rule, value, key)
    ELSE NoError

\* the first error of the checks of processRule between the format check and
\* the sibling rules, in the order the code makes them
ScalarConstraints(rule, value, key) ==
    IF rule.hasAllowedValues /\ isAllowedValue(rule, value, key) # NoError
    THEN isAllowedValue(rule, value, key)
    ELSE IF rule.hasRange /\ isInRange(rule, value, key) # NoError
    THEN isInRange(rule, value, key)
    ELSE IF Truthy(rule.minLength) /\ isMinLength(rule, value, key) # NoError
    THEN isMinLength(rule, value, key)
    ELSE IF Truthy(rule.maxLength) /\ isMaxLength(rule, value, key) # NoError
    THEN isMaxLength(rule, value, key)
    ELSE IF Truthy(rule.length) /\ isLength(rule, value, key) # NoError
    THEN isLength(rule, value, key)
    ELSE NoError

(***************************************************************************)
(* processRule up to its return, its throw, or its call of                 *)
(* processChildRules.  kind is "throw", "return" (convertedValue is what   *)
(* it returns) or "descend" (convertedValue is what it will return once    *)
(* processChildRules is back); ps is the ParentStack as it leaves it.      *)
(***************************************************************************)
Thrown(err, ps) == [kind |-> "throw", err |-> err, convertedValue |-> Undefined, ps |-> ps]

\* a processRule without the bail-out
NeverAbsent(value) == FALSE

\* the bail-out for an undefined value
ValueIsAbsent(value) == ~IsDefined(value)

\* the value handed to processSiblingRules
SiblingOperand(value, convertedValue) == value

processRule(key, rule, ruleName, value, ps) ==
    IF rule.required /\ isRequired(rule, value, key) # NoError
    THEN Thrown(isRequired(rule, value, key), ps)
    ELSE IF ValueIsAbsent(value)
    THEN [kind |-> "return", err |-> NoError, convertedValue |-> Undefined, ps |-> ps]
    ELSE
    LET fmt == IF rule.format # "" THEN isCorrectFormat(rule, value, key)
               ELSE [err |-> NoError, value |-> value]
        ps1 == IF rule.fixedChildLength THEN enableFixedChildLength(ps) ELSE ps
        sib == processSiblingRules(ps1, key, rule, ruleName,
                                   SiblingOperand(value, fmt.value))
    IN  IF fmt.err # NoError THEN Thrown(fmt.err, ps)
        ELSE IF ScalarConstraints(rule, value, key) # NoError
        THEN Thrown(ScalarConstraints(rule, value, key), ps)
        ELSE IF sib.err # NoError THEN Thrown(sib.err, sib.ps)
        ELSE IF rule.hasChildRules
        THEN IF ~IsObjectType(value)
             THEN Thrown(TrackValidationError("is expected to be an object or array", key),
                         sib.ps)
             ELSE [kind |-> "descend", err |-> NoError, convertedValue |-> fmt.value,
                   ps |-> sib.ps]
        ELSE [kind |-> "return", err |-> NoError, convertedValue |-> fmt.value, ps |-> sib.ps]

(***************************************************************************)
(* selectConditionalRule.  The predicates a caller registers are functions *)
(* of (parentValue, value); the model knows these by name.                 *)
(***************************************************************************)
ConditionHolds(name, parentValue, value) ==
    IF name = "isBig" THEN JsLess(Num(100), value)
    ELSE IF name = "inArray" THEN IsArray(parentValue)
    ELSE FALSE

\* rule.some(...) from the alternative at index j on: the index it stops at
\* with true, 0 when it runs off the end, or the error it throws
RECURSIVE SomeCondition(_, _, _, _, _)
SomeCondition(alts, j, value, parentValue, key) ==
    IF j > Len(alts) THEN [err |-> NoError, found |-> 0]
    ELSE IF alts[j].condition = "" THEN SomeCondition(alts, j + 1, value, parentValue, key)
    ELSE IF ~currentOptions.conditions.defined
    THEN [err |-> TypeError("cannot read property of undefined", key), found |-> 0]
    ELSE IF alts[j].condition \notin currentOptions.conditions.names
    THEN [err |-> TrackValidationError("invalid condition name", key), found |-> 0]
    ELSE IF ConditionHolds(alts[j].condition, parentValue, value)
    THEN [err |-> NoError, found |-> j]
    ELSE SomeCondition(alts, j + 1, value, parentValue, key)

\* a resolver that falls back to the last alternative without a condition
ElseIndexLast(alts) ==
    IF \E j \in 1..Len(alts) : alts[j].condition = ""
    THEN CHOOSE j \in 1..Len(alts) :
            /\ alts[j].condition = ""
            /\ \A h \in (j + 1)..Len(alts) : alts[h].condition # ""
    ELSE 0

\* elseConditions[0] is alts[ElseIndex(alts)]; 0 when elseConditions is empty
ElseIndex(alts) ==
    IF \E j \in 1..Len(alts) : alts[j].condition = ""
    THEN CHOOSE j \in 1..Len(alts) :
            /\ alts[j].condition = ""
            /\ \A h \in 1..(j - 1) : alts[h].condition # ""
    ELSE 0

\* [err, rule]
selectConditionalRule(rule, value, parentValue, key) ==
    IF ~rule.isList THEN [err |-> NoError, rule |-> rule.alts[1]]
    ELSE LET some == SomeCondition(rule.alts, 1, value, parentValue, key)
         IN  IF some.err # NoError THEN [err |-> some.err, rule |-> EmptyRule]
             ELSE IF some.found > 0 THEN [err |-> NoError, rule |-> rule.alts[some.found]]
             ELSE IF ElseIndex(rule.alts) = 0 THEN [err |-> NoError, rule |-> EmptyRule]
             ELSE [err |-> NoError, rule |-> rule.alts[ElseIndex(rule.alts)]]

(***************************************************************************)
(* The iteration strategies.  Each gives the callback invocations it makes *)
(* in order, as <<valueName, ruleName>> records; the value handed to the   *)
(* callback is read from the container when the invocation is made.        *)
(***************************************************************************)
Max(a, b) == IF a >= b THEN a ELSE b

Invocation(valueName, ruleName) == [valueName |-> valueName, ruleName |-> ruleName]

\* wildcardRule.required: an alternative list has no such property
WildcardRequired(ruleMap) ==
    LET wildcardRule == RuleAt(ruleMap, wildcardRuleName)
    IN  ~wildcardRule.isList /\ wildcardRule.alts[1].required

\* the ruleIndex the loop body computes for i
WildcardRuleIndex(i, wildcardIndex, wildcardEndIndex) ==
    IF i > wildcardEndIndex THEN i - wildcardEndIndex + 1
    ELSE IF i >= wildcardIndex /\ i <= wildcardEndIndex THEN wildcardIndex
    ELSE i

iterateArrayWithRulesWildcard(array, ruleMap) ==
    LET maybeRequiredRuleCount ==
            Len(ruleMap) - (IF WildcardRequired(ruleMap) THEN 0 ELSE 1)
        total == Max(Len(array.e), maybeRequiredRuleCount)
        wildcardIndex == IndexOfRule(ruleMap, wildcardRuleName)
        nonWildcardRulesAtEnd == Len(ruleMap) - 1 - wildcardIndex
        wildcardEndIndex == total - nonWildcardRulesAtEnd - 1
    IN  [n \in 1..total |->
            Invocation(IdxSeg(n - 1),
                       RuleNameAt(ruleMap,
                                  WildcardRuleIndex(n - 1, wildcardIndex, wildcardEndIndex)))]

\* a loop that stops at the end of the array
iterateArrayWithRulesShort(array, ruleMap) ==
    [n \in 1..Len(array.e) |->
        Invocation(IdxSeg(n - 1),
                   IF Len(ruleMap) = 0 THEN "undefined"
                   ELSE RuleNameAt(ruleMap, (n - 1) % Len(ruleMap)))]

iterateArrayWithRules(array, ruleMap) ==
    LET total == Max(Len(array.e), Len(ruleMap))
    IN  [n \in 1..total |->
            Invocation(IdxSeg(n - 1),
                       IF Len(ruleMap) = 0 THEN "undefined"
                       ELSE RuleNameAt(ruleMap, (n - 1) % Len(ruleMap)))]

iterateObjectWithRules(obj, ruleMap) ==
    [n \in 1..Len(ruleMap) |-> Invocation(KeySeg(ruleMap[n].name), ruleMap[n].name)]

iterateObjectWithRulesWildcard(obj, ruleMap) ==
    LET valueNames == ObjectKeys(obj)
        ruleNames == RuleNames(ruleMap)
        explicitNames == SelectSeq(ruleNames, LAMBDA name : name # wildcardRuleName)
        implicitNames ==
            SelectSeq(valueNames,
                      LAMBDA name : \A j \in 1..Len(explicitNames) : explicitNames[j] # name)
        names == explicitNames \o implicitNames
    IN  [n \in 1..Len(names) |->
            Invocation(KeySeg(names[n]),
                       IF HasRule(ruleMap, names[n]) THEN names[n] ELSE wildcardRuleName)]

(***************************************************************************)
(* processChildRules                                                       *)
(***************************************************************************)
\* what processChildRules sets up before its loop: the strategy and the
\* flags; path is where parentValue sits in data, i the invocations made
ChildRulesCall(parentKey, ruleMap, path, parentValue) ==
    LET hasWildcard == HasRule(ruleMap, wildcardRuleName)
        isArray == IsArray(parentValue)
    IN  [parentKey |-> parentKey, rules |-> ruleMap, path |-> path,
         hasWildcard |-> hasWildcard,
         hasMultipleRules |-> Len(ruleMap) > 1,
         isArray |-> isArray,
         invocations |->
            IF isArray
            THEN IF hasWildcard THEN iterateArrayWithRulesWildcard(parentValue, ruleMap)
                 ELSE iterateArrayWithRules(parentValue, ruleMap)
            ELSE IF hasWildcard THEN iterateObjectWithRulesWildcard(parentValue, ruleMap)
                 ELSE iterateObjectWithRules(parentValue, ruleMap),
         i |-> 0]

\* the key of the message: the path as a sequence of steps, with the rule
\* name in a step into an array that has more than one rule
ChildKey(call, valueName, ruleName) ==
    Append(call.parentKey,
           [name |-> valueName.name, idx |-> valueName.idx,
            rule |-> IF call.isArray /\ call.hasMultipleRules THEN ruleName ELSE ""])

\* a write-back that does not look at what processRule returned
WriteBackAnything(convertedValue) == currentOptions.convert

\* the write-back test of the callback
ShouldWriteBack(convertedValue) ==
    IsDefined(convertedValue) /\ currentOptions.convert

\* a filter that does not look for a wildcard rule
FilterDespiteWildcard(call) == currentOptions.filter /\ ~call.isArray

\* a filter that does not look at the filter option
FilterUnasked(call) == ~call.isArray /\ ~call.hasWildcard

\* the test in front of applyFilterForObject
ShouldFilter(call) ==
    currentOptions.filter /\ ~call.isArray /\ ~call.hasWildcard

applyFilterForObject(obj, ruleMap) ==
    Obj(SelectSeq(obj.p, LAMBDA prop : HasRule(ruleMap, prop.key)))

\* the callback of the running loop, from its start to the return, throw
\* or recursion of processRule
Callback(call) ==
    LET inv == call.invocations[call.i + 1]
        parentValue == GetPath(data, call.path)
        value == Get(parentValue, inv.valueName)
        key == ChildKey(call, inv.valueName, inv.ruleName)
        here == [valueName |-> inv.valueName, ruleName |-> inv.ruleName,
                 key |-> key, value |-> value]
    IN  IF ~HasRule(call.rules, inv.ruleName)
        THEN [rule |-> EmptyRule, resolved |-> FALSE] @@ here @@
             Thrown(TypeError("cannot read property of undefined", key), parentStack)
        ELSE LET sel == selectConditionalRule(RuleAt(call.rules, inv.ruleName),
                                              value, parentValue, key)
             IN  IF sel.err # NoError
                 THEN [rule |-> EmptyRule, resolved |-> FALSE] @@ here @@
                      Thrown(sel.err, parentStack)
                 ELSE [rule |-> sel.rule, resolved |-> TRUE] @@ here @@
                      processRule(key, sel.rule, inv.ruleName, value, parentStack)

Running == stack # <<>>
Top == stack[Len(stack)]
InLoop == Running /\ Top.i < Len(Top.invocations)

LogEntry(cb) ==
    [call |-> Len(result) + 1, parent |-> Top.path, isArray |-> Top.isArray,
     hasWildcard |-> Top.hasWildcard, valueName |-> cb.valueName,
     ruleName |-> cb.ruleName, key |-> cb.key, value |-> cb.value,
     parentValue |-> GetPath(data, Top.path), ruleMap |-> Top.rules,
     resolved |-> cb.resolved, rule |-> cb.rule, kind |-> cb.kind, err |-> cb.err,
     convertedValue |-> cb.convertedValue, parentStack |-> parentStack]

(***************************************************************************)
(* validate and the steps of its traversal                                 *)
(***************************************************************************)
\* validate(data, rules, options) up to the first callback: sets
\* currentOptions and enters processChildRules('', rules, data), which makes
\* a new ParentStack and pushes
Validate ==
    /\ ~Running
    /\ Len(result) < MaxCalls
    /\ currentOptions' = ExtendOptions(options)
    /\ stack' = <<ChildRulesCall(<<>>, rules, <<>>, data)>>
    /\ parentStack' = ParentStackPush(<<>>)
    /\ UNCHANGED <<data, rules, options, result, log, original>>

\* the callback throws (from selectConditionalRule or processRule): the
\* error leaves validate
VisitThrow ==
    /\ InLoop
    /\ LET cb == Callback(Top)
       IN  /\ cb.kind = "throw"
           /\ result' = Append(result, cb.err)
           /\ log' = Append(log, LogEntry(cb))
    /\ stack' = <<>>
    /\ parentStack' = <<>>
    /\ UNCHANGED <<data, rules, options, currentOptions, original>>

\* processRule returns without recursion: the callback writes the value
\* back and the loop goes on
VisitReturn ==
    /\ InLoop
    /\ LET cb == Callback(Top)
       IN  /\ cb.kind = "return"
           /\ parentStack' = cb.ps
           /\ data' = IF ShouldWriteBack(cb.convertedValue)
                      THEN PutPath(data, Append(Top.path, cb.valueName), cb.convertedValue)
                      ELSE data
           /\ log' = Append(log, LogEntry(cb))
    /\ stack' = [stack EXCEPT ![Len(stack)].i = @ + 1]
    /\ UNCHANGED <<rules, options, currentOptions, result, original>>

\* processRule reaches processChildRules(key, rule.childRules, value,
\* parentStack), which pushes
VisitDescend ==
    /\ InLoop
    /\ LET cb == Callback(Top)
       IN  /\ cb.kind = "descend"
           /\ parentStack' = ParentStackPush(cb.ps)
           /\ stack' = Append(stack,
                              ChildRulesCall(cb.key, cb.rule.childRules,
                                             Append(Top.path, cb.valueName), cb.value))
           /\ log' = Append(log, LogEntry(cb))
    /\ UNCHANGED <<data, rules, options, currentOptions, result, original>>

\* data after the last lines of the running processChildRules
Filtered(call) ==
    IF ShouldFilter(call)
    THEN PutPath(data, call.path, applyFilterForObject(GetPath(data, call.path), call.rules))
    ELSE data

\* the loop of a nested processChildRules is over: filter, pop, return to
\* processRule, which returns convertedValue (the container it was given,
\* no converter of the model returning a container) to the caller's
\* callback, which writes it back and goes on with its loop
Leave ==
    /\ Running /\ ~InLoop /\ Len(stack) > 1
    /\ LET caller == stack[Len(stack) - 1]
           valueName == caller.invocations[caller.i + 1].valueName
           convertedValue == GetPath(Filtered(Top), Top.path)
       IN  data' = IF ShouldWriteBack(convertedValue)
                   THEN PutPath(Filtered(Top), Append(caller.path, valueName), convertedValue)
                   ELSE Filtered(Top)
    /\ parentStack' = ParentStackPop(parentStack)
    /\ stack' = [SubSeq(stack, 1, Len(stack) - 1) EXCEPT ![Len(stack) - 1].i = @ + 1]
    /\ UNCHANGED <<rules, options, currentOptions, result, log, original>>

\* the loop of the outermost processChildRules is over: filter, pop, and
\* validate returns
Return ==
    /\ Running /\ ~InLoop /\ Len(stack) = 1
    /\ data' = Filtered(Top)
    /\ parentStack' = ParentStackPop(parentStack)
    /\ stack' = <<>>
    /\ result' = Append(result, NoError)
    /\ UNCHANGED <<rules, options, currentOptions, log, original>>

(***************************************************************************)
(* The calls the model makes: trees, rules and options of the shapes the   *)
(* module documentation describes (the root is an object; rules nest       *)
(* through childRules).                                                    *)
(***************************************************************************)
SeqsUpTo(S, n) == UNION {[1..m -> S] : m \in 0..n}

NoConditions == [defined |-> FALSE, names |-> {}]
Options(filter, convert, conditions) ==
    [filter |-> filter, convert |-> convert, conditions |-> conditions]
Scenario(d, r, o) == [data |-> d, rules |-> r, options |-> o]

WithChildRules(node, ruleMap) ==
    [node EXCEPT !.hasChildRules = TRUE, !.childRules = ruleMap]
Required(node, required) == [node EXCEPT !.required = required]

HeadNames == <<"a", "b", "c", "d">>
TailNames == <<"w", "x", "y", "z">>
Numbers(n) == [j \in 1..n |-> Num(j)]

\* { xs: [1, .., n] } under { xs: { childRules: { <h heads>, '*', <t tails> } } }
WildcardArrayScenarios ==
    { Scenario(
        Obj(<<Prop("xs", Arr(Numbers(n)))>>),
        <<Single("xs", WithChildRules(EmptyRule,
            [j \in 1..h |-> Single(HeadNames[j], Required(EmptyRule, req))]
            \o <<Single(wildcardRuleName, Required(EmptyRule, wreq))>>
            \o [j \in 1..t |-> Single(TailNames[j], Required(EmptyRule, req))]))>>,
        Options(FALSE, convert, NoConditions))
      : n \in 0..(MaxLen + 2), h \in 0..MaxHead, t \in 0..MaxTail,
        req \in BOOLEAN, wreq \in BOOLEAN, convert \in BOOLEAN }

\* { xs: [1, .., n] } under { xs: { childRules: { <k rules> } } }
PlainArrayScenarios ==
    { Scenario(
        Obj(<<Prop("xs", Arr(Numbers(n)))>>),
        <<Single("xs", WithChildRules(EmptyRule,
            [j \in 1..k |-> Single(HeadNames[j], Required(EmptyRule, req))]))>>,
        Options(FALSE, convert, NoConditions))
      : n \in 0..(MaxLen + 1), k \in 1..(MaxHead + 1),
        req \in BOOLEAN, convert \in BOOLEAN }

\* sequences the ordering flags are tried on: numbers 1..3, and shorter
\* ones that mix the number 2 with the strings "10" and "9"
MixedSequences == SeqsUpTo({Num(2), Str(<<1, 0>>), Str(<<9>>)}, MaxLen - 1)
OrderSequences == SeqsUpTo({Num(1), Num(2), Num(3)}, MaxLen) \cup MixedSequences
OrderRules ==
    { [EmptyRule EXCEPT !.ascending = fl[1], !.descending = fl[2], !.noRepeat = fl[3],
                        !.format = fmt]
      : fl \in {<<TRUE, FALSE, FALSE>>, <<FALSE, TRUE, FALSE>>,
                <<FALSE, FALSE, TRUE>>, <<TRUE, FALSE, TRUE>>},
        fmt \in {"", "number"} }

\* { xs: [v, ..] } under { xs: { childRules: { '*': <ordering rule> } } }
OrderedArrayScenarios ==
    { Scenario(
        Obj(<<Prop("xs", Arr(vs))>>),
        <<Single("xs", WithChildRules(EmptyRule, <<Single(wildcardRuleName, node)>>))>>,
        Options(FALSE, convert, NoConditions))
      : vs \in OrderSequences, node \in OrderRules, convert \in BOOLEAN }

\* { a: v, b: v' } under { '*': <ordering rule> }: siblings right under the root
OrderedRootScenarios ==
    { Scenario(
        Obj([j \in 1..Len(vs) |-> Prop(HeadNames[j], vs[j])]),
        <<Single(wildcardRuleName, node)>>,
        Options(FALSE, convert, NoConditions))
      : vs \in MixedSequences, node \in OrderRules, convert \in BOOLEAN }

\* { coords: [[1, .., l1], [1, .., l2], ..] } under
\* { coords: { fixedChildLength, childRules: { '*': { fixedChildLength, childRules? } } } }
FixedLengthScenarios ==
    UNION {
      { Scenario(
          Obj(<<Prop("coords", Arr([j \in 1..Len(ls) |-> Arr(Numbers(ls[j]))]))>>),
          <<Single("coords",
              WithChildRules([EmptyRule EXCEPT !.fixedChildLength = outer],
                <<Single(wildcardRuleName,
                    IF deep
                    THEN WithChildRules([EmptyRule EXCEPT !.fixedChildLength = inner],
                           <<Single(wildcardRuleName,
                                    [EmptyRule EXCEPT !.format = "number"])>>)
                    ELSE [EmptyRule EXCEPT !.fixedChildLength = inner])>>))>>,
          Options(FALSE, FALSE, NoConditions))
        : ls \in SeqsUpTo(0..MaxInner, IF deep THEN MaxLen - 1 ELSE MaxLen),
          outer \in BOOLEAN, inner \in BOOLEAN }
      : deep \in BOOLEAN }

\* alternatives: two guarded by registered predicates, one by a name nobody
\* registers, two without a condition
RangeRule(condition, from, to) ==
    [EmptyRule EXCEPT !.condition = condition, !.hasRange = TRUE,
                      !.range = <<Num(from), Num(to)>>]
AlternativePool ==
    { RangeRule("isBig", 101, 1000), RangeRule("inArray", 0, 1000),
      RangeRule("unknown", 0, 0), RangeRule("", 0, 100), RangeRule("", 0, 10000) }
ConditionRegistries ==
    { NoConditions, [defined |-> TRUE, names |-> {}],
      [defined |-> TRUE, names |-> {"isBig", "inArray"}] }

\* { v: n } under { v: [<alternatives>] } and
\* { xs: [n] } under { xs: { childRules: { '*': [<alternatives>] } } }
ConditionalScenarios ==
    { Scenario(
        IF nested THEN Obj(<<Prop("xs", Arr(<<Num(n)>>))>>) ELSE Obj(<<Prop("v", Num(n))>>),
        IF nested
        THEN <<Single("xs", WithChildRules(EmptyRule,
                                           <<Alternatives(wildcardRuleName, alts)>>))>>
        ELSE <<Alternatives("v", alts)>>,
        Options(FALSE, FALSE, registry))
      : n \in {50, 150, 5000}, alts \in SeqsUpTo(AlternativePool, MaxAlts),
        registry \in ConditionRegistries, nested \in BOOLEAN }

\* { m: { a?: "7", b?: 2, c?: 3 }, junk: 0 } under
\* { m: { childRules: { a?, b?, d?, '*'? } } }; no tree has a key d
MappingValue(name) ==
    IF name = "a" THEN Str(<<7>>) ELSE IF name = "b" THEN Num(2) ELSE Num(3)
MappingRule(name, required) ==
    IF name = "a" THEN [EmptyRule EXCEPT !.required = required, !.format = "number"]
    ELSE IF name = "b" THEN [EmptyRule EXCEPT !.format = "number"]
    ELSE WithChildRules(
           [EmptyRule EXCEPT !.required = required, !.format = "number",
                             !.length = Num(1), !.ascending = TRUE],
           <<Single("e", Required(EmptyRule, TRUE))>>)
MappingScenarios ==
    { LET keys == SelectSeq(<<"a", "b", "c">>, LAMBDA name : name \in present)
          names == SelectSeq(<<"a", "b", "d">>, LAMBDA name : name \in named)
      IN  Scenario(
            Obj(<<Prop("m", Obj([j \in 1..Len(keys) |-> Prop(keys[j], MappingValue(keys[j]))])),
                  Prop("junk", Num(0))>>),
            <<Single("m", WithChildRules(EmptyRule,
                [j \in 1..Len(names) |-> Single(names[j], MappingRule(names[j], required))]
                \o (IF wildcard THEN <<Single(wildcardRuleName, EmptyRule)>> ELSE <<>>)))>>,
            Options(filter, convert, NoConditions))
      : present \in SUBSET {"a", "b", "c"}, named \in SUBSET {"a", "b", "d"},
        required \in BOOLEAN, wildcard \in BOOLEAN, filter \in BOOLEAN,
        convert \in BOOLEAN }

\* { s: <string or array of c elements> } under
\* { s: { length | minLength | maxLength: bound } }, bound 0 included
LengthRules(bound) ==
    { [EmptyRule EXCEPT !.length = Num(bound)],
      [EmptyRule EXCEPT !.minLength = Num(bound)],
      [EmptyRule EXCEPT !.maxLength = Num(bound)] }
LengthScenarios ==
    { Scenario(
        Obj(<<Prop("s", IF text THEN Str([j \in 1..c |-> 1]) ELSE Arr(Numbers(c)))>>),
        <<Single("s", node)>>,
        Options(FALSE, FALSE, NoConditions))
      : c \in 0..MaxLen, text \in BOOLEAN,
        node \in UNION { LengthRules(bound) : bound \in 0..MaxLen } }

\* rules with up to two of the constraints of processRule, each with a
\* bound that the string "12" breaks
ConstraintNames ==
    {"format", "allowedValues", "range", "minLength", "maxLength", "length",
     "fixedChildLength", "ascending", "childRules"}
ConstraintNode(cs) ==
    [EmptyRule EXCEPT
        !.format = IF "format" \in cs THEN "number" ELSE "",
        !.hasAllowedValues = "allowedValues" \in cs,
        !.allowedValues = IF "allowedValues" \in cs THEN <<Str(<<5>>)>> ELSE <<>>,
        !.hasRange = "range" \in cs,
        !.range = IF "range" \in cs THEN <<Num(0), Num(9)>> ELSE <<Undefined, Undefined>>,
        !.minLength = IF "minLength" \in cs THEN Num(3) ELSE Undefined,
        !.maxLength = IF "maxLength" \in cs THEN Num(1) ELSE Undefined,
        !.length = IF "length" \in cs THEN Num(1) ELSE Undefined,
        !.ascending = "ascending" \in cs,
        !.hasChildRules = "childRules" \in cs,
        !.childRules = IF "childRules" \in cs THEN <<Single(wildcardRuleName, EmptyRule)>>
                       ELSE <<>>]
TextSequences == SeqsUpTo({Str(<<5>>), Str(<<1, 2>>)}, 2)
NestedSequences == { <<Arr(<<Num(1)>>), Str(<<1, 2>>)>>, <<Arr(<<Num(1)>>), Arr(<<Num(1)>>)>> }

\* { xs: [v, ..], z: "5" } under (the ordering flag stays with the strings)
\* { xs: { fixedChildLength?, childRules: { '*': <constraints> } }, z: { format: 'number' } }
ConstraintOrderScenarios ==
    UNION {
      { Scenario(
          Obj(<<Prop("xs", Arr(vs)), Prop("z", Str(<<5>>))>>),
          <<Single("xs", WithChildRules(
                           [EmptyRule EXCEPT !.fixedChildLength = "fixedChildLength" \in cs],
                           <<Single(wildcardRuleName, ConstraintNode(cs))>>)),
            Single("z", [EmptyRule EXCEPT !.format = "number"])>>,
          Options(FALSE, convert, NoConditions))
        : vs \in IF "ascending" \in cs THEN TextSequences
                 ELSE TextSequences \cup NestedSequences,
          convert \in BOOLEAN }
      : cs \in { s \in SUBSET ConstraintNames : Cardinality(s) <= 2 } }

\* { p: [s, ..], q: [s, ..] } under
\* { p: { fixedChildLength?, childRules: { '*': { ascending? } } }, q: likewise }:
\* two containers side by side, their children strings of one or two characters
SiblingContainerRule(fixed, ascending) ==
    WithChildRules([EmptyRule EXCEPT !.fixedChildLength = fixed],
                   <<Single(wildcardRuleName, [EmptyRule EXCEPT !.ascending = ascending])>>)
SiblingContainerScenarios ==
    { Scenario(
        Obj(<<Prop("p", Arr(ps)), Prop("q", Arr(qs))>>),
        <<Single("p", SiblingContainerRule(fp, ascending)),
          Single("q", SiblingContainerRule(fq, ascending))>>,
        Options(FALSE, FALSE, NoConditions))
      : ps \in SeqsUpTo({Str(<<2>>), Str(<<1, 0>>)}, 2),
        qs \in SeqsUpTo({Str(<<2>>), Str(<<1, 0>>)}, 2),
        fp \in BOOLEAN, fq \in BOOLEAN, ascending \in BOOLEAN }

Scenarios ==
    WildcardArrayScenarios \cup PlainArrayScenarios \cup OrderedArrayScenarios
    \cup OrderedRootScenarios \cup FixedLengthScenarios \cup ConditionalScenarios
    \cup MappingScenarios \cup LengthScenarios
    \cup ConstraintOrderScenarios \cup SiblingContainerScenarios

\* before the first call: currentOptions is not set yet, no call is running
Init ==
    /\ \E sc \in Scenarios :
          /\ data = sc.data
          /\ rules = sc.rules
          /\ options = sc.options
          /\ original = sc.data
    /\ currentOptions = ExtendOptions(Options(FALSE, FALSE, NoConditions))
    /\ stack = <<>>
    /\ parentStack = <<>>
    /\ result = <<>>
    /\ log = <<>>

Next ==
    \/ Validate
    \/ VisitThrow
    \/ VisitReturn
    \/ VisitDescend
    \/ Leave
    \/ Return

Spec == Init /\ [][Next]_vars

(***************************************************************************)
(* Properties                                                              *)
(***************************************************************************)
MinOf(S) == CHOOSE x \in S : \A y \in S : x <= y
MaxOf(S) == CHOOSE x \in S : \A y \in S : x >= y

\* the callback invocation log[m] got past the checks of processRule
Accepted(m) == log[m].resolved /\ log[m].kind # "throw" /\ IsDefined(log[m].value)

(***************************************************************************)
(* C1  iterateArrayWithRulesWildcard                                       *)
(***************************************************************************)
\* the rule name the head/tail anchoring gives position i of total positions
AnchoredRuleName(ruleMap, total, i) ==
    LET head == IndexOfRule(ruleMap, wildcardRuleName)
        tail == Len(ruleMap) - 1 - head
    IN  IF i < head THEN ruleMap[i + 1].name
        ELSE IF i >= total - tail THEN ruleMap[head + 1 + (i - (total - tail)) + 1].name
        ELSE wildcardRuleName

AnchoredTotal(ruleMap, n) ==
    Max(n, Len(ruleMap) - 1 + (IF WildcardRequired(ruleMap) THEN 1 ELSE 0))

\* C1: a sequence iterated under a rule map with a wildcard gets
\* max(n, head + tail + (1 if the wildcard is required)) positions, and every
\* position visited was given the head rule of its index, the tail rule of
\* its distance from the end, or the wildcard in between.
C1_WildcardAnchoring ==
    /\ \A d \in 1..Len(stack) :
          (stack[d].isArray /\ stack[d].hasWildcard) =>
              Len(stack[d].invocations) =
                  AnchoredTotal(stack[d].rules, Len(GetPath(data, stack[d].path).e))
    /\ \A m \in 1..Len(log) :
          (log[m].isArray /\ log[m].hasWildcard) =>
              log[m].ruleName =
                  AnchoredRuleName(log[m].ruleMap,
                                   AnchoredTotal(log[m].ruleMap, Len(log[m].parentValue.e)),
                                   log[m].valueName.idx)

(***************************************************************************)
(* C2  ordering constraints                                                *)
(***************************************************************************)
HasOrderingFlag(rule) == rule.ascending \/ rule.descending \/ rule.noRepeat

\* the earlier invocations of the same call on the same container under the
\* same rule name whose value an ordering flag had recorded
RecordedSiblings(m) ==
    { j \in 1..(m - 1) :
        /\ log[j].call = log[m].call
        /\ log[j].parent = log[m].parent
        /\ log[j].ruleName = log[m].ruleName
        /\ Accepted(j)
        /\ HasOrderingFlag(log[j].rule) }

\* no value is accepted that is out of order against the operands ln, lp
\* of this invocation and of the last recorded sibling
InOrder(rule, ln, lp) ==
    /\ rule.ascending => ~JsLess(ln, lp)
    /\ rule.descending => ~JsLess(lp, ln)
    /\ rule.noRepeat => ~JsStrictEq(lp, ln)

\* C2: at every nesting level, the children of the root included, a value
\* whose rule has ascending / descending / noRepeat is accepted only if it is
\* not less than / not greater than / not equal to the value last recorded
\* for an earlier sibling under the same rule name.
C2_OrderingAtEveryLevel ==
    \A m \in 1..Len(log) :
        (Accepted(m) /\ HasOrderingFlag(log[m].rule) /\ RecordedSiblings(m) # {}) =>
            InOrder(log[m].rule, log[m].value, log[MaxOf(RecordedSiblings(m))].value)

(***************************************************************************)
(* C3  fixedChildLength                                                    *)
(***************************************************************************)
\* the rule under which the container of log[m] was itself processed
\* enables fixedChildLength
ContainerFixesLength(m) ==
    \E j \in 1..(m - 1) :
        /\ log[j].call = log[m].call
        /\ log[j].kind = "descend"
        /\ Append(log[j].parent, log[j].valueName) = log[m].parent
        /\ log[j].rule.fixedChildLength

AcceptedSiblings(m) ==
    { j \in 1..m : log[j].call = log[m].call /\ log[j].parent = log[m].parent
                    /\ Accepted(j) }

\* C3: among the siblings processed in one rule-map application whose
\* container's rule enables fixedChildLength, none is accepted whose length
\* differs from the length of the first one, whatever that length is.
C3_FixedChildLength ==
    \A m \in 1..Len(log) :
        (Accepted(m) /\ ContainerFixesLength(m)) =>
            LengthOf(log[m].value) = LengthOf(log[MinOf(AcceptedSiblings(m))].value)

(***************************************************************************)
(* C4  conversion and ordering                                             *)
(***************************************************************************)
Converts(m) ==
    /\ Accepted(m)
    /\ currentOptions.convert
    /\ log[m].rule.format \in ConverterNames

\* C4: with convert, a value whose format has a converter is replaced in
\* place by the converter's output, and where the ordering checks run it is
\* the converted values of the siblings that they compare.
C4_OrderingSeesConverted ==
    \A m \in 1..Len(log) :
        Converts(m) =>
            /\ log[m].kind = "return" =>
                  GetPath(data, Append(log[m].parent, log[m].valueName))
                      = convertNumber(log[m].value).value
            /\ (/\ HasOrderingFlag(log[m].rule)
                /\ Len(log[m].parentStack) >= 2
                /\ RecordedSiblings(m) # {}) =>
                  InOrder(log[m].rule, log[m].convertedValue,
                          log[MaxOf(RecordedSiblings(m))].convertedValue)

(***************************************************************************)
(* C5  selectConditionalRule                                               *)
(***************************************************************************)
Registered(name) ==
    currentOptions.conditions.defined /\ name \in currentOptions.conditions.names

\* the alternatives of alts whose condition is registered and holds
Matching(alts, parentValue, value) ==
    { j \in 1..Len(alts) :
        /\ alts[j].condition # ""
        /\ Registered(alts[j].condition)
        /\ ConditionHolds(alts[j].condition, parentValue, value) }

\* an alternative with a condition nobody registered comes before every
\* matching one
MeetsUnregistered(alts, parentValue, value) ==
    \E j \in 1..Len(alts) :
        /\ alts[j].condition # ""
        /\ ~Registered(alts[j].condition)
        /\ \A h \in Matching(alts, parentValue, value) : j < h

Unconditional(alts) == { j \in 1..Len(alts) : alts[j].condition = "" }

\* the rule map entry log[m] was invoked for
EntryOf(m) == RuleAt(log[m].ruleMap, log[m].ruleName)

OutOfRange(rule, value) ==
    rule.hasRange /\ (JsLess(value, rule.range[1]) \/ JsLess(rule.range[2], value))

\* C5: a single rule node is used as it is; of an alternative list the
\* first alternative whose condition holds of (parentValue, value) is used,
\* else the first alternative without a condition, else the empty rule; and
\* the range of the alternative selected is the one enforced.
C5_ConditionalRuleSelection ==
    \A m \in 1..Len(log) :
        HasRule(log[m].ruleMap, log[m].ruleName) =>
            LET alts == EntryOf(m).alts
                matching == Matching(alts, log[m].parentValue, log[m].value)
            IN  IF ~EntryOf(m).isList
                THEN log[m].resolved /\ log[m].rule = alts[1]
                ELSE ~MeetsUnregistered(alts, log[m].parentValue, log[m].value) =>
                        /\ log[m].resolved
                        /\ log[m].rule =
                              IF matching # {} THEN alts[MinOf(matching)]
                              ELSE IF Unconditional(alts) # {}
                              THEN alts[MinOf(Unconditional(alts))]
                              ELSE EmptyRule
                        /\ (log[m].kind = "throw") = OutOfRange(log[m].rule, log[m].value)

\* 150 under [{condition: isBig, range: [101, 1000]}, {range: [0, 100]}] was
\* accepted under the first alternative, after the same list sent a value
\* to its second
C5_Witness ==
    \E m \in 1..Len(log) :
        /\ EntryOf(m).isList
        /\ EntryOf(m).alts = <<RangeRule("isBig", 101, 1000), RangeRule("", 0, 100)>>
        /\ log[m].value = Num(150)
        /\ log[m].rule = RangeRule("isBig", 101, 1000)
        /\ log[m].kind = "return"

(***************************************************************************)
(* C6  unknown condition names                                             *)
(***************************************************************************)
\* C6: when the resolver reaches an alternative whose condition has no
\* predicate registered, validate ends with an error that is not of the
\* class of the validation errors.
C6_UnknownConditionIsNotValidationError ==
    \A m \in 1..Len(log) :
        (/\ HasRule(log[m].ruleMap, log[m].ruleName)
         /\ EntryOf(m).isList
         /\ MeetsUnregistered(EntryOf(m).alts, log[m].parentValue, log[m].value)) =>
            /\ log[m].kind = "throw"
            /\ log[m].err.class # "TrackValidationError"

(***************************************************************************)
(* C7  absent keys                                                         *)
(***************************************************************************)
\* the next callback is for a rule named in a mapping's rule map whose key
\* the mapping does not have
AbsentNamedKey ==
    /\ InLoop
    /\ ~Top.isArray
    /\ Callback(Top).resolved
    /\ Callback(Top).ruleName # wildcardRuleName
    /\ ~HasOwn(GetPath(data, Top.path), Callback(Top).valueName.name)

\* the positions a key names, without the rule names
KeyPath(key) == [j \in 1..Len(key) |-> [name |-> key[j].name, idx |-> key[j].idx]]

Applications ==
    {[path |-> <<>>, ruleMap |-> rules]}
    \cup { [path |-> Append(log[j].parent, log[j].valueName),
            ruleMap |-> log[j].rule.childRules] : j \in {h \in 1..Len(log) : log[h].kind = "descend"} }

RECURSIVE SameShape(_, _)
SameShape(v, o) ==
    IF v.k = "object"
    THEN /\ o.k = "object"
         /\ ObjectKeys(v) = ObjectKeys(o)
         /\ \A j \in 1..Len(v.p) : SameShape(v.p[j].val, o.p[j].val)
    ELSE IF v.k = "array"
    THEN /\ o.k = "array"
         /\ Len(v.e) = Len(o.e)
         /\ \A j \in 1..Len(v.e) : SameShape(v.e[j], o.e[j])
    ELSE TRUE

Succeeded == ~Running /\ result # <<>> /\ \A j \in 1..Len(result) : result[j] = NoError

RECURSIVE Within(_, _)
Within(v, o) ==
    IF v.k = "object"
    THEN /\ o.k = "object"
         /\ \A j \in 1..Len(v.p) :
               HasOwn(o, v.p[j].key) /\ Within(v.p[j].val, Get(o, KeySeg(v.p[j].key)))
    ELSE IF v.k = "array"
    THEN /\ o.k = "array"
         /\ Len(v.e) <= Len(o.e)
         /\ \A j \in 1..Len(v.e) : Within(v.e[j], o.e[j])
    ELSE TRUE

C10_Idempotent ==
    (~options.convert /\ ~options.filter) =>
        /\ data = original
        /\ \A j \in 1..Len(result) : result[j] = result[1]

\* two calls were made with both options off, and both threw
C10_Witness ==
    /\ ~options.convert /\ ~options.filter
    /\ Len(result) = MaxCalls
    /\ result[1].class = "TrackValidationError"
    /\ result[MaxCalls] = result[1]

(***************************************************************************)
(* C11  length, minLength, maxLength                                       *)
(***************************************************************************)
\* log[m] is an invocation on a defined string or sequence
Counted(m) == log[m].resolved /\ log[m].value.k \in {"string", "array"}

\* C11: for a string or sequence of count c, whatever the bound is, 0
\* included: a value is accepted only if c = length, c <= maxLength and
\* c >= minLength for those of the three its rule carries, and it is
\* rejected for its length only if the bound named by the message is broken.
C11_LengthBounds ==
    \A m \in 1..Len(log) :
        Counted(m) =>
            LET c == LengthOf(log[m].value).n
                rule == log[m].rule
            IN  /\ log[m].kind # "throw" =>
                      /\ IsDefined(rule.length) => c = rule.length.n
                      /\ IsDefined(rule.maxLength) => c <= rule.maxLength.n
                      /\ IsDefined(rule.minLength) => c >= rule.minLength.n
                /\ log[m].err.reason = "Value has wrong length" => c # rule.length.n
                /\ log[m].err.reason = "Max length exceeded" => c > rule.maxLength.n
                /\ log[m].err.reason = "Min length not reached" => c < rule.minLength.n

(***************************************************************************)
(* C12  fail-fast, and the order of the checks                             *)
(***************************************************************************)
\* the first error of a sequence of verdicts, NoError when there is none
RECURSIVE FirstError(_)
FirstError(errs) ==
    IF errs = <<>> THEN NoError
    ELSE IF Head(errs) # NoError THEN Head(errs)
    ELSE FirstError(Tail(errs))

\* what each constraint that the code applies to log[m] says on its own, in
\* the order required, format, allowedValues, range, minLength, maxLength,
\* length, fixedChildLength, ordering flags, childRules; an undefined value
\* meets the required check alone
Verdicts(m) ==
    LET rule == log[m].rule
        value == log[m].value
        key == log[m].key
        ps == IF rule.fixedChildLength THEN enableFixedChildLength(log[m].parentStack)
              ELSE log[m].parentStack
        hasParent == PeekIndex(ps, 1) >= 1
        baseline == ps[PeekIndex(ps, 1)].fixedChildLength
        required == IF rule.required THEN isRequired(rule, value, key) ELSE NoError
    IN  IF ~IsDefined(value) THEN <<required>>
        ELSE << required,
                IF rule.format # "" THEN isCorrectFormat(rule, value, key).err ELSE NoError,
                IF rule.hasAllowedValues THEN isAllowedValue(rule, value, key) ELSE NoError,
                IF rule.hasRange THEN isInRange(rule, value, key) ELSE NoError,
                IF Truthy(rule.minLength) THEN isMinLength(rule, value, key) ELSE NoError,
                IF Truthy(rule.maxLength) THEN isMaxLength(rule, value, key) ELSE NoError,
                IF Truthy(rule.length) THEN isLength(rule, value, key) ELSE NoError,
                IF hasParent /\ Truthy(baseline) /\ baseline # Num(-1)
                             /\ baseline # LengthOf(value)
                THEN TrackValidationError(
                         "has a different length than the previous sibling", key)
                ELSE NoError,
                IF hasParent THEN processSortingRules(ps, key, rule, log[m].ruleName, value).err
                ELSE NoError,
                IF rule.hasChildRules /\ ~IsObjectType(value)
                THEN TrackValidationError("is expected to be an object or array", key)
                ELSE NoError >>

\* the place of log[m] in the iteration order of the strategy of its container
Position(m) ==
    LET invocations ==
            ChildRulesCall(<<>>, log[m].ruleMap, log[m].parent, log[m].parentValue).invocations
    IN  CHOOSE n \in 1..Len(invocations) : invocations[n].valueName = log[m].valueName

IsPrefix(s, t) == Len(s) <= Len(t) /\ s = SubSeq(t, 1, Len(s))

\* every invocation ends as the first constraint in the order that objects
\* says; the invocations of a call come depth first, the children of a
\* container in the order of its strategy without a gap; a throw is the last
\* invocation of its call and is what the call raises
FailFastLog ==
    /\ \A m \in 1..Len(log) :
          /\ log[m].resolved =>
                /\ (log[m].kind = "throw") = (log[m].err # NoError)
                /\ log[m].err = FirstError(Verdicts(m))
          /\ Position(m) = 1 + Cardinality({ j \in 1..(m - 1) :
                                               /\ log[j].call = log[m].call
                                               /\ log[j].parent = log[m].parent })
          /\ IF m > 1 /\ log[m - 1].call = log[m].call
             THEN /\ log[m - 1].kind # "throw"
                  /\ IsPrefix(log[m].parent, Append(log[m - 1].parent, log[m - 1].valueName))
                  /\ Len(log[m].parent) > Len(log[m - 1].parent)
                        => log[m - 1].kind = "descend"
             ELSE log[m].parent = <<>>
          /\ log[m].kind = "throw" =>
                /\ Len(result) >= log[m].call
                /\ result[log[m].call] = log[m].err
    /\ \A c \in 1..Len(result) :
          result[c] = NoError => \A m \in 1..Len(log) : log[m].call = c => log[m].kind # "throw"

\* the step of a throw changes nothing in the tree and ends the call, and
\* nothing changes the tree between two calls
FailFastStep ==
    /\ (Len(log') > Len(log) /\ log'[Len(log')].kind = "throw") =>
          /\ data' = data
          /\ stack' = <<>>
          /\ Len(result') = Len(result) + 1
    /\ (stack = <<>> /\ stack' = <<>>) => data' = data

\* C12: validate raises the first violation of a depth-first traversal that
\* takes siblings in the order of the strategy and, per value, the
\* constraints in the order required, format, allowedValues, range,
\* minLength, maxLength, length, fixedChildLength, ordering flags,
\* childRules; after it no constraint, child or sibling is evaluated and the
\* tree is not changed.
C12_FailFast == []FailFastLog /\ [][FailFastStep]_vars

\* a call has thrown at a second sibling that breaks two constraints of its
\* rule, with a later sibling of the container's parent left unvisited
C12_Witness ==
    /\ ~Running
    /\ \E m \in 1..Len(log) :
          /\ log[m].kind = "throw" /\ log[m].resolved
          /\ log[m].call = Len(result)
          /\ Position(m) > 1
          /\ Cardinality({ n \in 1..Len(Verdicts(m)) : Verdicts(m)[n] # NoError }) >= 2
          /\ Get(data, KeySeg("z")) = Str(<<5>>)
          /\ \A j \in 1..Len(log) : log[j].valueName # KeySeg("z")

(***************************************************************************)
(* C13  iterateArrayWithRules                                              *)
(***************************************************************************)
\* log[m] is an invocation on a position of a sequence whose rule map has
\* rule names and no wildcard
Cycled(m) == log[m].isArray /\ ~log[m].hasWildcard /\ Len(log[m].ruleMap) >= 1

\* the invocations of the call of log[j] on the children of its value
ChildrenOf(j) ==
    { m \in 1..Len(log) :
        /\ log[m].call = log[j].call
        /\ log[m].parent = Append(log[j].parent, log[j].valueName) }

\* C13: a sequence of n elements under a rule map of k >= 1 rule names and
\* no wildcard gets the positions 0 .. max(n, k) - 1 in increasing order:
\* position i is processed under the rule name declared at index i mod k,
\* with an undefined value when i >= n, so that a required rule there
\* fails; a call that returns has made all max(n, k) invocations.
C13_CyclicRuleNames ==
    /\ \A d \in 1..Len(stack) :
          (stack[d].isArray /\ ~stack[d].hasWildcard /\ Len(stack[d].rules) >= 1) =>
              /\ Len(stack[d].invocations) =
                     Max(Len(GetPath(data, stack[d].path).e), Len(stack[d].rules))
              /\ \A n \in 1..Len(stack[d].invocations) :
                     stack[d].invocations[n].valueName = IdxSeg(n - 1)
    /\ \A m \in 1..Len(log) :
          Cycled(m) =>
              LET i == log[m].valueName.idx
                  n == Len(log[m].parentValue.e)
                  k == Len(log[m].ruleMap)
              IN  /\ i = Cardinality({ j \in 1..(m - 1) : /\ log[j].call = log[m].call
                                                          /\ log[j].parent = log[m].parent })
                  /\ i < Max(n, k)
                  /\ log[m].ruleName = log[m].ruleMap[(i % k) + 1].name
                  /\ i >= n => ~IsDefined(log[m].value)
                  /\ (i >= n /\ log[m].resolved /\ log[m].rule.required) =>
                        /\ log[m].kind = "throw"
                        /\ log[m].err.reason = "not defined but required"
    /\ \A j \in 1..Len(log) :
          ( /\ log[j].kind = "descend"
            /\ IsArray(log[j].value)
            /\ ~HasRule(log[j].rule.childRules, wildcardRuleName)
            /\ Len(log[j].rule.childRules) >= 1
            /\ Len(result) >= log[j].call
            /\ result[log[j].call] = NoError ) =>
              Cardinality(ChildrenOf(j)) =
                  Max(Len(log[j].value.e), Len(log[j].rule.childRules))

\* a sequence shorter than its rule map was given a position past its end
\* under the rule name of that index, and the required rule there has thrown
C13_Witness ==
    \E m \in 1..Len(log) :
        /\ Cycled(m)
        /\ log[m].valueName.idx >= Len(log[m].parentValue.e)
        /\ log[m].valueName.idx >= 1
        /\ log[m].ruleName = HeadNames[log[m].valueName.idx + 1]
        /\ log[m].rule.required
        /\ result # <<>> /\ result[log[m].call] = log[m].err
        /\ log[m].err.reason = "not defined but required"

(***************************************************************************)
(* C14  the scope of the ordering state                                    *)
(***************************************************************************)
OrderingReasons ==
    {"breaks ascending order", "breaks descending order",
     "repeats the value from its previous sibling"}

\* C14: a value is rejected for ordering only against a value recorded for
\* an earlier child of the same container in the same rule-map application:
\* there is such a child, and the rejected value is out of order against the
\* last of them; the first flagged child of a container is never rejected.
C14_OrderingScopedToParent ==
    \A m \in 1..Len(log) :
        log[m].err.reason \in OrderingReasons =>
            /\ RecordedSiblings(m) # {}
            /\ ~InOrder(log[m].rule, log[m].value, log[MaxOf(RecordedSiblings(m))].value)

(***************************************************************************)
(* C15  the scope of the length baseline                                   *)
(***************************************************************************)
\* C15: a value is rejected for having a different length than the previous
\* sibling only if the rule of its container, or its own rule, enables
\* fixedChildLength; the children of a container without the flag are not
\* rejected so after a sibling container with the flag.
C15_BaselineDoesNotLeak ==
    \A m \in 1..Len(log) :
        log[m].err.reason = "has a different length than the previous sibling" =>
            ContainerFixesLength(m) \/ log[m].rule.fixedChildLength

====
